---- MODULE Spec2Model ----
(***************************************************************************)
(* Voucher / pickup-list lifecycle of the ACS shipping tab.                *)
(*                                                                         *)
(*   acs_api.py          ACSCourierAPI   (courier client)                  *)
(*   acs_database.py     ACSDatabase     (shipment store)                  *)
(*   acs_integration.py  ACSShippingTab  (lifecycle orchestrator)          *)
(*                                                                         *)
(* Every handler of the shipping tab runs on the Tk main loop, so handlers *)
(* do not interleave: while create_voucher_with_auto_pdf is at one of its  *)
(* steps, or has returned and the main loop has not yet taken the next     *)
(* event (pc # "idle"), no other handler starts.                           *)
(***************************************************************************)
EXTENDS Integers, Sequences, FiniteSets, TLC

\* ------------------------------------------------------------------ bounds
MaxShipments == 2   \* rows the shipments table may hold
MaxVoucher   == 1   \* voucher numbers the courier may answer with: 1..MaxVoucher
MaxOrder     == 1   \* storefront order ids: 1..MaxOrder
MaxDay       == 2   \* calendar days: 1..MaxDay
MaxLists     == 2   \* rows the pickup_lists table may hold
MaxInvocations == 3 \* runs of the pickup list handler
MaxQueue     == 3   \* callbacks root.after holds for the main loop
MaxCod       == 2   \* largest amount of money, in euros
MaxAddrLen   == 4   \* characters of a free-text address
MaxItems     == 8   \* products or orders the storefront holds
MaxZipLen    == 6   \* characters typed into the zipcode field
MaxPhoneLen  == 11  \* characters typed into the phone field

\* --------------------------------------------------------- value encoding
NULL   == 0          \* SQL NULL / Python None of a number-valued field
None   == "None"     \* Python None of a text-valued field
NoPath == <<>>       \* pdf_path = None

Vouchers == 1..MaxVoucher
Orders   == 1..MaxOrder
Days     == 1..MaxDay

\* f"voucher_{voucher_no}_{timestamp}.pdf" / f"..._thermal.pdf" in today's folder
PathOf(voucher_no, kind) == <<voucher_no, kind>>

\* width of the sequence part of pickup_list_no: f"{count+1:04d}"
SeqBase == 10000

\* ------------------------------------------------------------------ text
\* A text is the sequence of its characters.  "1" stands for the digits,
\* "a" for the letters, " " for white space, "-" for punctuation.
DigitChars == {"1"}

Texts(chars, n) == UNION {[1..k -> chars] : k \in 0..n}

\* str.strip()
strip(s) ==
    LET kept == {i \in 1..Len(s) : s[i] # " "}
    IN IF kept = {} THEN <<>>
       ELSE SubSeq(s, CHOOSE i \in kept : \A j \in kept : i <= j,
                      CHOOSE i \in kept : \A j \in kept : i >= j)

\* str.isdigit(): not empty and every character a digit
isdigit(s) == Len(s) > 0 /\ \A i \in 1..Len(s) : s[i] \in DigitChars

\* digits a zipcode has: len(zipcode) == 5
ZipLen == 5

\* digits a phone number has: len(phone) != 10
PhoneLen == 10

\* validate_zipcode with the isdigit() test left out
validate_zipcode_any_chars(zipcode) == Len(strip(zipcode)) = ZipLen

\* validate_zipcode
validate_zipcode(zipcode) ==
    LET z == strip(zipcode) IN isdigit(z) /\ Len(z) = ZipLen

\* format_phone: ''.join(filter(str.isdigit, str(phone)))
format_phone(phone) ==
    LET IsDigit(c) == c \in DigitChars IN SelectSeq(phone, IsDigit)

\* float(text or default) does not raise ValueError
float_ok(s) == s = <<>> \/ isdigit(s)

\* ----------------------------------------------------------- courier side
\* What the single courier endpoint may answer.  http is the transport
\* outcome, hasError is ACSExecution_HasError, msg is ACSExecutionErrorMessage
\* (None when absent), output is ACSOutputResponce.
Output(isNull, value, object) ==
    [isNull |-> isNull, value |-> value, object |-> object]

NoOutput == Output(FALSE, <<>>, "none")

HttpFailures == {"403", "406", "500", "timeout"}

FailedResponses ==
    {[http |-> h, hasError |-> FALSE, msg |-> None, output |-> NoOutput] :
        h \in HttpFailures}
    \cup {[http |-> "200", hasError |-> TRUE, msg |-> m, output |-> NoOutput] :
            m \in {"courier rejected the request", None}}
    \cup {[http |-> "200", hasError |-> FALSE, msg |-> None,
           output |-> Output(TRUE, <<>>, "none")]}

OkResponse(value, object) ==
    [http |-> "200", hasError |-> FALSE, msg |-> None,
     output |-> Output(FALSE, value, object)]

\* ACS_Create_Voucher: ACSValueOutput is empty or holds one entry.
VoucherEntry(no, err) ==
    [Voucher_No |-> no, PickupList_No |-> NULL, Error_Message |-> err]

CreateVoucherResponses ==
    FailedResponses
    \cup {OkResponse(<<>>, "none")}
    \cup {OkResponse(<<VoucherEntry(NULL, e)>>, "none") :
            e \in {"Recipient_Zipcode is not valid", None}}
    \cup {OkResponse(<<VoucherEntry(v, None)>>, "none") : v \in Vouchers}

\* ACS_Print_Voucher_V2: ACSObjectOutput is empty, holds an entry without the
\* voucher's key, or holds the label as base64 text: text that decodes to a
\* PDF, text that decodes to zero bytes, or text base64.b64decode rejects.
PrintResponses ==
    FailedResponses
    \cup {OkResponse(<<>>, o) :
            o \in {"none", "nokey", "pdf", "zerobytes", "undecodable"}}

\* ACS_Issue_Pickup_List: the courier's own PickupList_No is any number the
\* courier likes: one that looks like the number the store derives for the
\* day's first list, or one that does not.
PickupEntry(no, err) ==
    [Voucher_No |-> NULL, PickupList_No |-> no, Error_Message |-> err]

CourierListNos(day) == {day * SeqBase + 1, 7}

PickupResponses(day) ==
    FailedResponses
    \cup {OkResponse(<<>>, "none")}
    \cup {OkResponse(<<PickupEntry(NULL, e)>>, "none") :
            e \in {"Unprinted vouchers found", None}}
    \cup {OkResponse(<<PickupEntry(n, None)>>, "none") :
            n \in CourierListNos(day)}

\* ------------------------------------------------------ ACSCourierAPI
\* _make_request: {success, data} or {success: False, error}
make_request(resp) ==
    IF resp.http = "200" THEN
        IF resp.hasError = FALSE
        THEN [success |-> TRUE, error |-> None, data |-> resp.output]
        ELSE [success |-> FALSE,
              error |-> IF resp.msg = None THEN "Unknown error" ELSE resp.msg,
              data |-> NoOutput]
    ELSE IF resp.http = "403"
        THEN [success |-> FALSE, data |-> NoOutput,
              error |-> "API Key authentication failed (403 Forbidden)"]
    ELSE IF resp.http = "406"
        THEN [success |-> FALSE, data |-> NoOutput,
              error |-> "Rate limit exceeded (406 Not Acceptable)"]
    ELSE IF resp.http = "500"
        THEN [success |-> FALSE, data |-> NoOutput, error |-> "HTTP 500"]
    ELSE [success |-> FALSE, data |-> NoOutput, error |-> "Request failed"]

\* A client operation's outcome as the orchestrator sees it.  raised: the
\* call raised instead of returning; has_voucher_no: the returned dict has a
\* 'voucher_no' key.
ClientResult(raised, success, error, voucher_no, has_voucher_no, pickup_list_no) ==
    [raised |-> raised, success |-> success, error |-> error,
     voucher_no |-> voucher_no, has_voucher_no |-> has_voucher_no,
     pickup_list_no |-> pickup_list_no]

Raised == ClientResult(TRUE, FALSE, None, NULL, FALSE, NULL)

\* create_voucher
create_voucher(resp) ==
    LET result == make_request(resp) IN
    IF result.success THEN
        IF result.data.isNull
        THEN Raised                     \* None.get(...) : AttributeError
        ELSE LET output == result.data.value IN
             IF Len(output) > 0 THEN
                 LET voucher_info == output[1] IN
                 IF voucher_info.Voucher_No # NULL
                 THEN ClientResult(FALSE, TRUE, None,
                                   voucher_info.Voucher_No, TRUE, NULL)
                 ELSE ClientResult(FALSE, FALSE,
                        IF voucher_info.Error_Message = None
                        THEN "Voucher creation failed"
                        ELSE voucher_info.Error_Message,
                        NULL, FALSE, NULL)
             ELSE \* return result: success without a voucher_no key
                  ClientResult(FALSE, TRUE, None, NULL, FALSE, NULL)
    ELSE ClientResult(FALSE, FALSE, result.error, NULL, FALSE, NULL)

\* print_voucher with an output_path.  wrote is what the call leaves at
\* output_path: "none" (file untouched), "empty" or "nonempty".
PrintResult(raised, success, error, wrote) ==
    [raised |-> raised, success |-> success, error |-> error, wrote |-> wrote]

print_voucher(resp, writable) ==
    LET result == make_request(resp)
        failed == PrintResult(FALSE, FALSE, "Failed to get PDF", "none")
    IN
    IF result.success THEN
        IF result.data.isNull
        THEN PrintResult(TRUE, FALSE, None, "none")     \* AttributeError
        ELSE IF result.data.object \in {"none", "nokey"}
        THEN failed
        ELSE IF result.data.object = "undecodable"
        THEN PrintResult(TRUE, FALSE, None, "none")     \* binascii.Error
        ELSE IF ~writable
        THEN PrintResult(TRUE, FALSE, None, "none")     \* open() raises
        ELSE PrintResult(FALSE, TRUE, None,
                IF result.data.object = "pdf" THEN "nonempty" ELSE "empty")
    ELSE failed

\* create_pickup_list
api_create_pickup_list(resp) ==
    LET result == make_request(resp)
        failed == ClientResult(FALSE, FALSE, "Failed to create pickup list",
                               NULL, FALSE, NULL)
    IN
    IF result.success THEN
        IF result.data.isNull
        THEN Raised
        ELSE LET output == result.data.value IN
             IF Len(output) > 0 THEN
                 LET pickup_info == output[1] IN
                 IF pickup_info.PickupList_No # NULL
                 THEN ClientResult(FALSE, TRUE, None, NULL, FALSE,
                                   pickup_info.PickupList_No)
                 ELSE IF pickup_info.Error_Message # None
                 THEN ClientResult(FALSE, FALSE, pickup_info.Error_Message,
                                   NULL, FALSE, NULL)
                 ELSE failed
             ELSE failed
    ELSE failed

\* ------------------------------------------------------------ ACSDatabase
VARIABLES
    shipments,      \* table shipments, in id order (ids are 1..Len: no row is ever deleted)
    pickup_lists,   \* table pickup_lists, in id order
    activity_log    \* table activity_log, in id order

store == <<shipments, pickup_lists, activity_log>>

\* log_activity (its own failure is swallowed and is not modelled)
log_activity(log, action, voucher_no) ==
    Append(log, [action |-> action, voucher_no |-> voucher_no])

\* The row INSERT INTO shipments writes for data; created_date is
\* CURRENT_TIMESTAMP, pickup_date and pickup_list_no stay NULL.
ShipmentRow(rows, data, day) ==
    [id |-> Len(rows) + 1,
     voucher_no |-> data.voucher_no,
     source |-> data.source,
     woocommerce_order_id |-> data.woocommerce_order_id,
     status |-> data.status,
     pdf_path |-> data.pdf_path,
     created_date |-> day,
     pickup_date |-> NULL,
     pickup_list_no |-> NULL]

\* UniqueViolation with the UNIQUE constraint of the column left out
UniqueViolation_never(rows, voucher_no) == FALSE

\* voucher_no TEXT UNIQUE: NULLs never collide
UniqueViolation(rows, voucher_no) ==
    /\ voucher_no # NULL
    /\ \E i \in 1..Len(rows) : rows[i].voucher_no = voucher_no

\* add_shipment: the new tables and the returned id (NULL for None).  The
\* INSERT raises on a storage error or on the UNIQUE constraint; the except
\* branch prints and returns None, and nothing was written or logged.
add_shipment(rows, log, data, day, storage_ok) ==
    IF ~storage_ok \/ UniqueViolation(rows, data.voucher_no)
    THEN [shipments |-> rows, activity_log |-> log, id |-> NULL]
    ELSE [shipments |-> Append(rows, ShipmentRow(rows, data, day)),
          activity_log |-> log_activity(log, "CREATE_SHIPMENT", data.voucher_no),
          id |-> Len(rows) + 1]

\* update_shipment: the new shipments table.  Only the supplied fields
\* change ('id' is skipped); with no field left the method returns at once.
\* The UPDATE raises on a storage error or on the UNIQUE constraint, the
\* except branch prints, and nothing was written.  Nothing is logged.
update_shipment(rows, shipment_id, data, storage_ok) ==
    LET fields == DOMAIN data \ {"id"}
        Clash == /\ "voucher_no" \in fields
                 /\ data["voucher_no"] # NULL
                 /\ \E i \in 1..Len(rows) :
                       /\ rows[i].id # shipment_id
                       /\ rows[i].voucher_no = data["voucher_no"]
                 /\ \E i \in 1..Len(rows) : rows[i].id = shipment_id
    IN
    IF fields = {} \/ ~storage_ok \/ Clash
    THEN rows
    ELSE [i \in 1..Len(rows) |->
            IF rows[i].id = shipment_id
            THEN [f \in DOMAIN rows[i] |->
                    IF f \in fields THEN data[f] ELSE rows[i][f]]
            ELSE rows[i]]

\* get_shipment(voucher_no=...): the row, or the empty set for None
get_shipment(rows, voucher_no) ==
    IF voucher_no = NULL THEN {}
    ELSE {rows[i] : i \in {j \in 1..Len(rows) : rows[j].voucher_no = voucher_no}}

CountWhere(rows, P(_)) == Cardinality({i \in 1..Len(rows) : P(rows[i])})

\* get_today_stats with the date test of the MANUAL count left out
get_today_stats_manual_any_day(rows, day) ==
    LET Today(r)  == r.created_date = day
        Eshop(r)  == Today(r) /\ r.source = "ESHOP"
        Manual(r) == r.source = "MANUAL"
        Ready(r)  == Today(r) /\ r.status = "READY"
    IN [total  |-> CountWhere(rows, Today),
        eshop  |-> CountWhere(rows, Eshop),
        manual |-> CountWhere(rows, Manual),
        ready  |-> CountWhere(rows, Ready)]

\* get_today_stats
get_today_stats(rows, day) ==
    LET Today(r)  == r.created_date = day
        Eshop(r)  == Today(r) /\ r.source = "ESHOP"
        Manual(r) == Today(r) /\ r.source = "MANUAL"
        Ready(r)  == Today(r) /\ r.status = "READY"
    IN [total  |-> CountWhere(rows, Today),
        eshop  |-> CountWhere(rows, Eshop),
        manual |-> CountWhere(rows, Manual),
        ready  |-> CountWhere(rows, Ready)]

\* f"{today.strftime('%Y%m%d')}{count+1:04d}"
PickupListNoOf(day, count) == day * SeqBase + (count + 1)

\* StampReady with the status test of the WHERE clause left out
StampReady_any_status(rows, day, pickup_list_no) ==
    [i \in 1..Len(rows) |->
        IF rows[i].created_date = day
        THEN [rows[i] EXCEPT !.pickup_list_no = pickup_list_no,
                             !.pickup_date = day,
                             !.status = "PICKED_UP"]
        ELSE rows[i]]

\* UPDATE shipments SET pickup_list_no, pickup_date, status = 'PICKED_UP'
\*   WHERE DATE(created_date) = today AND status = 'READY'
StampReady(rows, day, pickup_list_no) ==
    [i \in 1..Len(rows) |->
        IF rows[i].created_date = day /\ rows[i].status = "READY"
        THEN [rows[i] EXCEPT !.pickup_list_no = pickup_list_no,
                             !.pickup_date = day,
                             !.status = "PICKED_UP"]
        ELSE rows[i]]

\* db_create_pickup_list with a failing INSERT INTO pickup_lists swallowed:
\* the shipments are stamped although no list row was written
db_create_pickup_list_stamp_only(rows, lists, log, day, storage_ok) ==
    LET SameDay(l) == l.pickup_date = day
        pickup_list_no == PickupListNoOf(day, CountWhere(lists, SameDay))
    IN [shipments |-> StampReady(rows, day, pickup_list_no),
        pickup_lists |-> lists, activity_log |-> log, list_id |-> NULL]

\* ACSDatabase.create_pickup_list: the new tables and the returned list id
\* (NULL for the (None, {}) of the except branch).
db_create_pickup_list(rows, lists, log, day, storage_ok) ==
    LET stats == get_today_stats(rows, day)
        SameDay(l) == l.pickup_date = day
        count == CountWhere(lists, SameDay)
        pickup_list_no == PickupListNoOf(day, count)
    IN
    IF ~storage_ok
    THEN [shipments |-> rows, pickup_lists |-> lists, activity_log |-> log,
          list_id |-> NULL]
    ELSE [shipments |-> StampReady(rows, day, pickup_list_no),
          pickup_lists |-> Append(lists,
              [id |-> Len(lists) + 1,
               pickup_list_no |-> pickup_list_no,
               pickup_date |-> day,
               total_vouchers |-> stats.total,
               eshop_count |-> stats.eshop,
               manual_count |-> stats.manual]),
          activity_log |-> log_activity(log, "CREATE_PICKUP_LIST", NULL),
          list_id |-> Len(lists) + 1]

\* ---------------------------------------------------------- ACSShippingTab
VARIABLES
    today,                   \* date.today()
    current_pickup_list_no,  \* self.current_pickup_list_no
    pc,      \* where the running handler stands; "idle" between handlers
    flow,    \* its locals
    calls,   \* courier calls the last handler has issued, in order
    ret,     \* what the last create_voucher_with_auto_pdf returned
    added,   \* what add_shipment returned to the last handler
    batch,   \* what the last create_pickup_list handler got back
    op,      \* the last handler that ran
    pre      \* the store and the date when the last handler started

\* The manual entry form
VARIABLES
    form,    \* what the user typed into self.manual_fields
    dialog   \* title of the messagebox save_manual_entry showed, "none" if none

\* The runs of the pickup list handler, step by step
VARIABLES
    invocations  \* every run of ACSShippingTab.create_pickup_list so far

\* The threads of the program
VARIABLES
    running,          \* where each background thread stands
    after_queue,      \* callbacks given to root.after that have not run yet
    reminder_active,  \* self.reminder_active
    touched           \* which thread has used the store or a widget itself

\* The functions and loops studied on their own
VARIABLES
    arg,     \* what the function was called with, or what its loop is served
    out      \* what it returned, or where its loop stands

pure == <<arg, out>>

\* State the voucher flow, the pickup list handler and the store operations
\* leave alone
outside == <<form, dialog, invocations, running, after_queue,
             reminder_active, touched, arg, out>>

vars == <<shipments, pickup_lists, activity_log, today, current_pickup_list_no,
          pc, flow, calls, ret, added, batch, op, pre, form, dialog,
          invocations, running, after_queue, reminder_active, touched,
          arg, out>>

\* No function has been called
NoArg == "none"
NoOut == [returned |-> FALSE]

\* No background thread has been started
NoThreads == [connect |-> "none", load |-> <<>>, reminder |-> "none"]

NoResult == ClientResult(FALSE, FALSE, None, NULL, FALSE, NULL)

InitFlow ==
    [source |-> "MANUAL", order_id |-> NULL, result |-> NoResult,
     voucher_no |-> NULL, pdf_path |-> NoPath,
     bound |-> FALSE]

Ret(success, voucher_no, pdf_path, error) ==
    [returned |-> TRUE, success |-> success, voucher_no |-> voucher_no,
     pdf_path |-> pdf_path, error |-> error]

NoRet == [returned |-> FALSE, success |-> FALSE, voucher_no |-> NULL,
          pdf_path |-> NoPath, error |-> None]

NoBatch == [pickup_list_no |-> NULL, list_id |-> NULL, error |-> None]

Snapshot ==
    [shipments |-> shipments, pickup_lists |-> pickup_lists,
     activity_log |-> activity_log, today |-> today,
     current_pickup_list_no |-> current_pickup_list_no]

NoSnapshot ==
    [shipments |-> <<>>, pickup_lists |-> <<>>, activity_log |-> <<>>,
     today |-> 1, current_pickup_list_no |-> NULL]

Call(alias, print_type, yielded) ==
    [alias |-> alias, print_type |-> print_type, yielded |-> yielded]

\* ----------------------------------------------------- manual entry form
Form(name, address, region, zipcode, phone, weight, cod_amount) ==
    [recipient_name |-> name, recipient_address |-> address,
     recipient_region |-> region, recipient_zipcode |-> zipcode,
     recipient_phone |-> phone, weight |-> weight, cod_amount |-> cod_amount]

GoodZip == [i \in 1..ZipLen |-> "1"]

GoodPhone == [i \in 1..PhoneLen |-> "1"]

FilledForm == Form(<<"a">>, <<"a">>, <<"a">>, GoodZip, GoodPhone, <<>>, <<>>)

\* What the user may have typed: any text of the field's alphabet in the
\* zipcode field with a handful of phone numbers, any text in the phone
\* field with a handful of zipcodes, and every mix of empty, blank and
\* filled required fields and of weight and COD texts with both well formed.
FormInputs ==
    {Form(<<"a">>, <<"a">>, <<"a">>, z, p, <<>>, <<>>) :
        z \in Texts({"1", "a", " "}, MaxZipLen),
        p \in {GoodPhone, <<"-">> \o GoodPhone, SubSeq(GoodPhone, 2, PhoneLen)}}
    \cup {Form(<<"a">>, <<"a">>, <<"a">>, z, p, <<>>, <<>>) :
        z \in {GoodZip, <<" ">> \o GoodZip, SubSeq(GoodZip, 2, ZipLen)},
        p \in Texts({"1", "-"}, MaxPhoneLen)}
    \cup {Form(n, a, r, GoodZip, GoodPhone, w, c) :
        n \in {<<>>, <<" ">>, <<"a">>}, a \in {<<>>, <<"a">>},
        r \in {<<>>, <<"a">>}, w \in {<<>>, <<"1">>, <<"a">>},
        c \in {<<>>, <<"a">>}}

Required ==
    <<"recipient_name", "recipient_address", "recipient_region",
      "recipient_zipcode", "recipient_phone">>

\* The messagebox save_manual_entry ends with before it creates a voucher
\* or saves a draft, "none" when the form passes every test
ManualEntryDialog(typed) ==
    LET data == [f \in DOMAIN typed |-> strip(typed[f])]
    IN IF \E i \in 1..Len(Required) : data[Required[i]] = <<>>
       THEN "Missing Field"
       ELSE IF ~validate_zipcode(data.recipient_zipcode)
       THEN "Invalid Zipcode"
       ELSE IF Len(format_phone(data.recipient_phone)) # PhoneLen
       THEN "Invalid Phone"
       ELSE IF ~(float_ok(data.weight) /\ float_ok(data.cod_amount))
       THEN "Invalid Number"
       ELSE "none"

\* ACSShippingTab.__init__ over a fresh database
Fresh ==
    /\ dialog = "none"
    /\ out = NoOut
    /\ invocations = <<>>
    /\ running = NoThreads
    /\ after_queue = <<>>
    /\ reminder_active = FALSE
    /\ touched = {}
    /\ shipments = <<>>
    /\ pickup_lists = <<>>
    /\ activity_log = <<>>
    /\ today = 1
    /\ current_pickup_list_no = NULL
    /\ pc = "idle"
    /\ flow = InitFlow
    /\ calls = <<>>
    /\ ret = NoRet
    /\ added = NULL
    /\ batch = NoBatch
    /\ op = "none"
    /\ pre = NoSnapshot

Init == Fresh /\ form = FilledForm /\ arg = NoArg

\* A handler starts: nothing of the previous handler's is left.
HandlerStarts(name) ==
    /\ pc = "idle"
    /\ op' = name
    /\ pre' = Snapshot
    /\ ret' = NoRet

\* save_manual_entry(create_voucher=True), validation passed: calls
\* create_voucher_with_auto_pdf(api_data, source='MANUAL')
ManualEntryCreateVoucher ==
    /\ HandlerStarts("voucher")
    /\ Len(shipments) < MaxShipments
    /\ pc' = "create"
    /\ flow' = [InitFlow EXCEPT !.source = "MANUAL", !.order_id = NULL]
    /\ calls' = <<>>
    /\ added' = NULL
    /\ batch' = NoBatch
    /\ UNCHANGED <<store, today, current_pickup_list_no>>
    /\ UNCHANGED outside

\* create_voucher_from_order / the edit dialog's create_voucher: calls
\* create_voucher_with_auto_pdf(..., source='ESHOP', order_id=order['id'])
OrderCreateVoucher ==
    /\ HandlerStarts("voucher")
    /\ Len(shipments) < MaxShipments
    /\ \E order \in Orders :
         flow' = [InitFlow EXCEPT !.source = "ESHOP", !.order_id = order]
    /\ pc' = "create"
    /\ calls' = <<>>
    /\ added' = NULL
    /\ batch' = NoBatch
    /\ UNCHANGED <<store, today, current_pickup_list_no>>
    /\ UNCHANGED outside

\* the draft's dict with 'status': 'READY'
DraftData_ready ==
    [voucher_no |-> NULL, source |-> "MANUAL", woocommerce_order_id |-> NULL,
     pdf_path |-> NoPath, status |-> "READY"]

\* save_manual_entry(create_voucher=False): add_shipment of a DRAFT row,
\* whose result is not looked at
DraftData ==
    [voucher_no |-> NULL, source |-> "MANUAL", woocommerce_order_id |-> NULL,
     pdf_path |-> NoPath, status |-> "DRAFT"]

SaveDraft ==
    /\ HandlerStarts("draft")
    /\ Len(shipments) < MaxShipments
    /\ \E storage_ok \in BOOLEAN :
         LET r == add_shipment(shipments, activity_log, DraftData, today,
                               storage_ok)
         IN /\ shipments' = r.shipments
            /\ activity_log' = r.activity_log
            /\ added' = r.id
    /\ calls' = <<>>
    /\ batch' = NoBatch
    /\ flow' = InitFlow
    /\ pc' = "returned"
    /\ UNCHANGED <<pickup_lists, today, current_pickup_list_no>>
    /\ UNCHANGED outside

\* FlowFailure with the courier client's text replaced by the default
FlowFailure_default(result) == Ret(FALSE, NULL, NoPath, "Unknown error")

\* return False, None, None, result.get('error', 'Unknown error')
FlowFailure(result) == Ret(FALSE, NULL, NoPath, result.error)

\* Step 1 of create_voucher_with_auto_pdf.  A raising create_voucher and the
\* KeyError of result['voucher_no'] both end in the outer except:
\* return False, None, None, str(e)
CreateVoucherStep ==
    /\ pc = "create"
    /\ \E result \in {create_voucher(resp) : resp \in CreateVoucherResponses} :
         /\ calls' = Append(calls, Call("ACS_Create_Voucher", NULL, FALSE))
         /\ flow' = [flow EXCEPT !.result = result,
                                 !.voucher_no = IF ~result.raised /\ result.success
                                                THEN result.voucher_no ELSE NULL]
         /\ IF result.raised
            THEN pc' = "returned" /\ ret' = Ret(FALSE, NULL, NoPath, "exception")
            ELSE IF ~result.success
            THEN pc' = "returned" /\ ret' = FlowFailure(result)
            ELSE IF ~result.has_voucher_no
            THEN pc' = "returned" /\ ret' = Ret(FALSE, NULL, NoPath, "'voucher_no'")
            ELSE pc' = "method1" /\ ret' = ret
    /\ UNCHANGED <<store, today, current_pickup_list_no, added, batch,
                   op, pre>>
    /\ UNCHANGED outside

\* Every outcome a print_voucher call of the flow may have: the courier's
\* answer, and whether output_path can be opened for writing
PrintOutcomes ==
    {print_voucher(resp, writable) :
        resp \in PrintResponses, writable \in BOOLEAN}

\* PrintType with the thermal fallback asking for the laser format again
PrintType_laser_only(kind) == 2

\* print_type of the laser attempts (2) and of the thermal attempt (1)
PrintType(kind) == IF kind = "laser" THEN 2 ELSE 1

\* pdf_path.exists() and pdf_path.stat().st_size > 0.  The flow looks at
\* the file only after a print_voucher call that returned success, and
\* such a call has just written output_path: the file is what it wrote.
ExistsNonEmpty(r) == r.wrote = "nonempty"

\* One print_voucher call of the flow as issued, with whether it yielded a
\* non-empty label file
LabelCall(kind, r) ==
    Call("ACS_Print_Voucher_V2", PrintType(kind),
         ~r.raised /\ r.success /\ ExistsNonEmpty(r))

\* Method 1: the locals after the attempt
Method1Locals(f, r) ==
    IF ~r.raised /\ r.success /\ ExistsNonEmpty(r)
    THEN [f EXCEPT !.pdf_path = PathOf(f.voucher_no, "laser"), !.bound = TRUE]
    ELSE [f EXCEPT !.pdf_path = NoPath, !.bound = TRUE]

\* Method 1.  When get_pdf_folder_for_date raises, no call is issued and
\* pdf_folder, timestamp and pdf_filename stay unbound.
Method1 ==
    /\ pc = "method1"
    /\ \/ /\ flow' = [flow EXCEPT !.pdf_path = NoPath, !.bound = FALSE]
          /\ UNCHANGED calls
       \/ \E r \in PrintOutcomes :
            /\ calls' = Append(calls, LabelCall("laser", r))
            /\ flow' = Method1Locals(flow, r)
    /\ pc' = "method2"
    /\ UNCHANGED <<store, today, current_pickup_list_no, ret, added, batch,
                   op, pre>>
    /\ UNCHANGED outside

\* NeedsRetry with the guard left out
NeedsRetry_always(f) == TRUE

\* if not pdf_path:
NeedsRetry(f) == f.pdf_path = NoPath

\* Methods 2 and 3: the locals after the attempt
RetryLocals(f, r, kind) ==
    IF ~r.raised /\ r.success
    THEN [f EXCEPT !.pdf_path = IF ExistsNonEmpty(r)
                                THEN PathOf(f.voucher_no, kind) ELSE NoPath]
    ELSE f

\* Methods 2 and 3.  With the names of Method 1 unbound, building the
\* argument raises before print_voucher is called.
RetryAttempt(kind) ==
    IF NeedsRetry(flow) /\ flow.bound
    THEN \E r \in PrintOutcomes :
           /\ calls' = Append(calls, LabelCall(kind, r))
           /\ flow' = RetryLocals(flow, r, kind)
    ELSE UNCHANGED <<calls, flow>>

Method2 ==
    /\ pc = "method2"
    /\ RetryAttempt("laser")
    /\ pc' = "method3"
    /\ UNCHANGED <<store, today, current_pickup_list_no, ret, added, batch,
                   op, pre>>
    /\ UNCHANGED outside

Method3 ==
    /\ pc = "method3"
    /\ RetryAttempt("thermal")
    /\ pc' = "persist"
    /\ UNCHANGED <<store, today, current_pickup_list_no, ret, added, batch,
                   op, pre>>
    /\ UNCHANGED outside

\* ShipmentData with the label path left out
ShipmentData_no_path(f) ==
    [voucher_no |-> f.voucher_no, source |-> f.source,
     woocommerce_order_id |-> f.order_id, pdf_path |-> NoPath,
     status |-> "READY"]

\* the dict Step 3 hands to add_shipment
ShipmentData(f) ==
    [voucher_no |-> f.voucher_no, source |-> f.source,
     woocommerce_order_id |-> f.order_id, pdf_path |-> f.pdf_path,
     status |-> "READY"]

\* return True, voucher_no, str(pdf_path) if pdf_path else None, None
FlowSuccess(f) == Ret(TRUE, f.voucher_no, f.pdf_path, None)

\* The locals are gone once the flow has returned; its arguments and the
\* courier client's answer to create_voucher are remembered.
AfterReturn(f) ==
    [InitFlow EXCEPT !.source = f.source, !.order_id = f.order_id,
                     !.result = f.result]

\* Step 3 and the return: add_shipment's result is dropped
Persist ==
    /\ pc = "persist"
    /\ \E storage_ok \in BOOLEAN :
         LET r == add_shipment(shipments, activity_log, ShipmentData(flow),
                               today, storage_ok)
         IN /\ shipments' = r.shipments
            /\ activity_log' = r.activity_log
            /\ added' = r.id
    /\ ret' = FlowSuccess(flow)
    /\ pc' = "returned"
    /\ flow' = AfterReturn(flow)
    /\ UNCHANGED <<pickup_lists, today, current_pickup_list_no, calls, batch,
                   op, pre>>
    /\ UNCHANGED outside

\* BatchGranted with the test of result['success'] left out
BatchGranted_always(result) == ~result.raised

\* if result['success']:
BatchGranted(result) == ~result.raised /\ result.success

\* Every outcome the courier client's create_pickup_list may have
PickupOutcomes(day) ==
    {api_create_pickup_list(resp) : resp \in PickupResponses(day)}

\* ACSShippingTab.create_pickup_list.  The handler returns before any call
\* when today has no shipment or the user declines the askyesno dialog.  A
\* raising courier client leaves the handler at once.  On success the
\* courier's number goes to current_pickup_list_no and the store's
\* create_pickup_list runs, its result unused.
CreatePickupList ==
    /\ HandlerStarts("pickup")
    /\ Len(pickup_lists) < MaxLists
    /\ \/ /\ calls' = <<>>
          /\ batch' = NoBatch
          /\ UNCHANGED <<store, current_pickup_list_no>>
       \/ /\ get_today_stats(shipments, today).total # 0
          /\ calls' = <<Call("ACS_Issue_Pickup_List", NULL, FALSE)>>
          /\ \E result \in PickupOutcomes(today) :
               IF BatchGranted(result)
               THEN \E storage_ok \in BOOLEAN :
                      LET r == db_create_pickup_list(shipments, pickup_lists,
                                   activity_log, today, storage_ok)
                      IN /\ current_pickup_list_no' = result.pickup_list_no
                         /\ shipments' = r.shipments
                         /\ pickup_lists' = r.pickup_lists
                         /\ activity_log' = r.activity_log
                         /\ batch' = [pickup_list_no |-> result.pickup_list_no,
                                      list_id |-> r.list_id, error |-> None]
               ELSE /\ batch' = [NoBatch EXCEPT !.error = result.error]
                    /\ UNCHANGED <<store, current_pickup_list_no>>
    /\ added' = NULL
    /\ flow' = InitFlow
    /\ pc' = "returned"
    /\ UNCHANGED today
    /\ UNCHANGED outside

\* The handler has returned and the main loop waits for the next event:
\* what the handler issued and got back is no longer looked at.
MainLoop ==
    /\ pc = "returned"
    /\ pc' = "idle"
    /\ flow' = InitFlow
    /\ calls' = <<>>
    /\ ret' = NoRet
    /\ added' = NULL
    /\ batch' = NoBatch
    /\ op' = "none"
    /\ pre' = NoSnapshot
    /\ UNCHANGED <<store, today, current_pickup_list_no>>
    /\ UNCHANGED outside

\* midnight
NextDay ==
    /\ pc = "idle"
    /\ today < MaxDay
    /\ today' = today + 1
    /\ UNCHANGED <<store, current_pickup_list_no, pc, flow, calls, ret,
                   added, batch, op, pre>>
    /\ UNCHANGED outside

Next ==
    \/ ManualEntryCreateVoucher
    \/ OrderCreateVoucher
    \/ SaveDraft
    \/ CreateVoucherStep
    \/ Method1
    \/ Method2
    \/ Method3
    \/ Persist
    \/ CreatePickupList
    \/ MainLoop
    \/ NextDay

Spec == Init /\ [][Next]_vars

\* --------------------------------------------- save_manual_entry on its own
\* save_manual_entry on whatever the user typed: a messagebox and return, or
\* the voucher flow (create_voucher=True), or the DRAFT row.
SaveManualEntry(with_voucher) ==
    IF ManualEntryDialog(form) # "none"
    THEN /\ HandlerStarts("manual")
         /\ dialog' = ManualEntryDialog(form)
         /\ pc' = "returned"
         /\ calls' = <<>>
         /\ added' = NULL
         /\ batch' = NoBatch
         /\ flow' = InitFlow
         /\ UNCHANGED <<store, today, current_pickup_list_no, form,
                        invocations, running, after_queue, reminder_active,
                        touched, arg, out>>
    ELSE IF with_voucher THEN ManualEntryCreateVoucher ELSE SaveDraft

SaveWithVoucher == SaveManualEntry(TRUE)

SaveAsDraft == SaveManualEntry(FALSE)

FormInit == Fresh /\ form \in FormInputs /\ arg = NoArg

FormNext ==
    \/ SaveWithVoucher
    \/ SaveAsDraft
    \/ CreateVoucherStep
    \/ Method1
    \/ Method2
    \/ Method3
    \/ Persist

FormSpec == FormInit /\ [][FormNext]_vars

\* ------------------------------------------------- ACSDatabase on its own
\* The store driven operation by operation, with the arguments the tab's
\* handlers pass: the DRAFT dict of save_manual_entry, every dict Step 3 of
\* create_voucher_with_auto_pdf can build, the {'pdf_path': filename} of
\* export_selected_voucher_pdf, and create_pickup_list on a day that has a
\* shipment.  op is the last operation, added what add_shipment returned,
\* flow.voucher_no the voucher number its caller passed.
FlowLocals ==
    {[InitFlow EXCEPT !.source = so[1], !.order_id = so[2],
                      !.voucher_no = v, !.pdf_path = p] :
        so \in {<<"MANUAL", NULL>>} \cup {<<"ESHOP", o>> : o \in Orders},
        v \in Vouchers,
        p \in {NoPath} \cup {PathOf(w, k) : w \in Vouchers, k \in {"laser", "thermal"}}}

AddInputs ==
    {DraftData} \cup {ShipmentData(f) : f \in {g \in FlowLocals :
        g.pdf_path = NoPath \/ g.pdf_path[1] = g.voucher_no}}

\* self.acs_db.add_shipment(data)
AddShipment ==
    /\ pc = "idle"
    /\ Len(shipments) < MaxShipments
    /\ \E data \in AddInputs, storage_ok \in BOOLEAN :
         LET r == add_shipment(shipments, activity_log, data, today, storage_ok)
         IN /\ shipments' = r.shipments
            /\ activity_log' = r.activity_log
            /\ added' = r.id
            /\ flow' = [InitFlow EXCEPT !.voucher_no = data.voucher_no]
    /\ op' = "add_shipment"
    /\ UNCHANGED <<pickup_lists, today, current_pickup_list_no, pc,
                   calls, ret, batch, pre>>
    /\ UNCHANGED outside

\* self.acs_db.update_shipment(shipment_id, {'pdf_path': filename}), which
\* export_selected_voucher_pdf calls for a selected row with a voucher number
UpdateShipment ==
    /\ pc = "idle"
    /\ \E i \in 1..Len(shipments), storage_ok \in BOOLEAN :
         /\ shipments[i].voucher_no # NULL
         /\ shipments' = update_shipment(shipments, shipments[i].id,
                [pdf_path |-> PathOf(shipments[i].voucher_no, "saved")],
                storage_ok)
    /\ op' = "update_shipment"
    /\ added' = NULL
    /\ flow' = InitFlow
    /\ UNCHANGED <<pickup_lists, activity_log, today, current_pickup_list_no,
                   pc, calls, ret, batch, pre>>
    /\ UNCHANGED outside

\* self.acs_db.create_pickup_list(), which ACSShippingTab.create_pickup_list
\* calls when today has a shipment and the courier answered success
CreatePickupListBatch ==
    /\ pc = "idle"
    /\ Len(pickup_lists) < MaxLists
    /\ get_today_stats(shipments, today).total # 0
    /\ \E storage_ok \in BOOLEAN :
         LET r == db_create_pickup_list(shipments, pickup_lists, activity_log,
                                        today, storage_ok)
         IN /\ shipments' = r.shipments
            /\ pickup_lists' = r.pickup_lists
            /\ activity_log' = r.activity_log
    /\ op' = "create_pickup_list"
    /\ added' = NULL
    /\ flow' = InitFlow
    /\ UNCHANGED <<today, current_pickup_list_no, pc, calls, ret,
                   batch, pre>>
    /\ UNCHANGED outside

StoreNext ==
    \/ AddShipment
    \/ UpdateShipment
    \/ CreatePickupListBatch
    \/ NextDay

StoreSpec == Init /\ [][StoreNext]_vars

\* ------------------------------------- create_pickup_list, step by step
\* The button "Create Pickup List" runs ACSShippingTab.create_pickup_list as
\* a Tk command: on the thread of root.mainloop(), one callback at a time.
\* Its askyesno dialog is modal, so no second click is dispatched while a
\* run of the handler has not returned.

NoStats == [total |-> 0, eshop |-> 0, manual |-> 0, ready |-> 0]

\* A run of the handler that has just been dispatched
Invocation(at) ==
    [at |-> at, day |-> NULL, stats |-> NoStats, pickup_list_no |-> NULL,
     wrote |-> FALSE]

InFlight(inv) == inv.at # "done"

\* Tk dispatches commands whatever else is running
MainThreadFree_always(invs) == TRUE

\* Tk dispatches the next command when the running one has returned
MainThreadFree(invs) == \A i \in DOMAIN invs : ~InFlight(invs[i])

\* The INSERT INTO pickup_lists, the UPDATE of the READY rows, log_activity
\* and commit of ACSDatabase.create_pickup_list, for the number and the
\* statistics the method has computed.  pickup_list_no is UNIQUE.
db_insert_pickup_list(rows, lists, log, day, stats, pickup_list_no, storage_ok) ==
    IF \/ ~storage_ok
       \/ \E i \in DOMAIN lists : lists[i].pickup_list_no = pickup_list_no
    THEN [shipments |-> rows, pickup_lists |-> lists, activity_log |-> log,
          list_id |-> NULL]
    ELSE [shipments |-> StampReady(rows, day, pickup_list_no),
          pickup_lists |-> Append(lists,
              [id |-> Len(lists) + 1,
               pickup_list_no |-> pickup_list_no,
               pickup_date |-> day,
               total_vouchers |-> stats.total,
               eshop_count |-> stats.eshop,
               manual_count |-> stats.manual]),
          activity_log |-> log_activity(log, "CREATE_PICKUP_LIST", NULL),
          list_id |-> Len(lists) + 1]

\* Only the tab's variables that a run of the handler writes change
BatchFrame ==
    UNCHANGED <<pc, flow, calls, ret, added, batch, op, pre, form, dialog,
                running, after_queue, reminder_active, touched, arg, out>>

\* A click on the button is dispatched: the handler reads today's statistics
\* and returns after a warning when there is no shipment, else asks
BatchClick ==
    /\ MainThreadFree(invocations)
    /\ Len(invocations) < MaxInvocations
    /\ invocations' = Append(invocations,
          Invocation(IF get_today_stats(shipments, today).total = 0
                     THEN "done" ELSE "confirm"))
    /\ UNCHANGED <<store, today, current_pickup_list_no>>
    /\ BatchFrame

\* messagebox.askyesno answers
BatchConfirm ==
    \E i \in DOMAIN invocations, yes \in BOOLEAN :
        /\ invocations[i].at = "confirm"
        /\ invocations' = [invocations EXCEPT
                             ![i].at = IF yes THEN "courier" ELSE "done"]
        /\ UNCHANGED <<store, today, current_pickup_list_no>>
        /\ BatchFrame

\* self.acs_api.create_pickup_list() answers
BatchCourier ==
    \E i \in DOMAIN invocations :
        /\ invocations[i].at = "courier"
        /\ \E result \in PickupOutcomes(today) :
             IF BatchGranted(result)
             THEN /\ current_pickup_list_no' = result.pickup_list_no
                  /\ invocations' = [invocations EXCEPT ![i].at = "count"]
             ELSE /\ invocations' = [invocations EXCEPT ![i].at = "done"]
                  /\ UNCHANGED current_pickup_list_no
        /\ UNCHANGED <<store, today>>
        /\ BatchFrame

\* ACSDatabase.create_pickup_list up to the number: date.today(),
\* get_today_stats(), SELECT COUNT(*) and the formatting
BatchCount ==
    \E i \in DOMAIN invocations :
        /\ invocations[i].at = "count"
        /\ LET SameDay(l) == l.pickup_date = today
           IN invocations' = [invocations EXCEPT
                ![i].at = "insert",
                ![i].day = today,
                ![i].stats = get_today_stats(shipments, today),
                ![i].pickup_list_no =
                    PickupListNoOf(today, CountWhere(pickup_lists, SameDay))]
        /\ UNCHANGED <<store, today, current_pickup_list_no>>
        /\ BatchFrame

\* ACSDatabase.create_pickup_list from the INSERT on
BatchInsert ==
    \E i \in DOMAIN invocations, storage_ok \in BOOLEAN :
        LET inv == invocations[i]
            r == db_insert_pickup_list(shipments, pickup_lists, activity_log,
                     inv.day, inv.stats, inv.pickup_list_no, storage_ok)
        IN /\ inv.at = "insert"
           /\ Len(pickup_lists) < MaxLists
           /\ shipments' = r.shipments
           /\ pickup_lists' = r.pickup_lists
           /\ activity_log' = r.activity_log
           /\ invocations' = [invocations EXCEPT
                                ![i].at = "done",
                                ![i].wrote = r.list_id # NULL]
           /\ UNCHANGED <<today, current_pickup_list_no>>
           /\ BatchFrame

\* What the other handlers store: the DRAFT of the manual form, or the READY
\* row of a manual voucher
BatchInputs ==
    {DraftData} \cup {ShipmentData_no_path(f) : f \in {g \in FlowLocals :
        g.source = "MANUAL" /\ g.pdf_path = NoPath}}

\* Another handler stores a shipment, between two runs of this one
BatchAddShipment ==
    /\ MainThreadFree(invocations)
    /\ Len(shipments) < MaxShipments
    /\ \E data \in BatchInputs, storage_ok \in BOOLEAN :
         LET r == add_shipment(shipments, activity_log, data, today, storage_ok)
         IN /\ shipments' = r.shipments
            /\ activity_log' = r.activity_log
    /\ UNCHANGED <<pickup_lists, today, current_pickup_list_no, invocations>>
    /\ BatchFrame

BatchNext ==
    \/ BatchClick
    \/ BatchConfirm
    \/ BatchCourier
    \/ BatchCount
    \/ BatchInsert
    \/ BatchAddShipment
    \/ NextDay

BatchSpec == Init /\ [][BatchNext]_vars

\* ------------------------------------------------------------ the threads
\* The main thread runs root.mainloop(); auto_connect and load_all_data each
\* start a daemon thread, and ACSShippingTab.__init__ starts the reminder
\* thread.  touched records which thread used the store or a widget itself;
\* a callback given to root.after is used by the main thread when it runs.

Touch(thread, what) == [thread |-> thread, what |-> what]

\* The callbacks load() gives to root.after(0, ...), in order
LoadProgram ==
    <<"status_var.set", "log", "log", "log", "log", "log",
      "process_customer_data", "log", "process_product_performance",
      "display_products", "display_orders", "display_customers",
      "display_performance", "update_analytics", "status_var.set", "log">>

\* The callbacks of its except branch
LoadError == <<"log", "messagebox.showerror">>

\* get_all_products and get_all_orders run before these callbacks of load()
AfterFetch == {3, 5}

\* The callback load() is about to hand over, counted from 1
LoadPosition(remaining) == Len(LoadProgram) - Len(remaining) + 1

\* What datetime.now() is to today's pickup time, when the thread looks
Clock == {"early", "window", "late"}

\* get_today_stats called on another thread than the one that opened the
\* connection: sqlite3 refuses the cursor, the except branch answers zeros
get_today_stats_off_thread == NoStats

\* What show_pickup_reminder uses when it runs on the given thread
show_pickup_reminder(thread) ==
    {Touch(thread, "store")} \cup
    (IF get_today_stats_off_thread.total = 0 THEN {}
     ELSE {Touch(thread, "ui")})

ThreadFrame ==
    UNCHANGED <<store, today, current_pickup_list_no, pc, flow, calls, ret,
                added, batch, op, pre, form, dialog, invocations, arg, out>>

\* EnhancedWooCommerceDashboard.__init__ calls auto_connect
Startup ==
    /\ touched = {}
    /\ running = NoThreads
    /\ after_queue = <<>>
    /\ touched' = {Touch("main", "ui")}
    /\ running' = [running EXCEPT !.connect = "testing"]
    /\ UNCHANGED <<after_queue, reminder_active>>
    /\ ThreadFrame

\* connect_thread: test_connection, then the hand-over of its outcome
ConnectThread ==
    /\ running.connect = "testing"
    /\ Len(after_queue) < MaxQueue
    /\ \E outcome \in {"on_connection_success", "on_connection_failed",
                       "on_connection_error"} :
         after_queue' = Append(after_queue, outcome)
    /\ running' = [running EXCEPT !.connect = "none"]
    /\ UNCHANGED <<touched, reminder_active>>
    /\ ThreadFrame

\* load: the next root.after(0, ...), or the except branch when a fetch failed
LoadThread ==
    /\ running.load # <<>>
    /\ Len(after_queue) < MaxQueue
    /\ \/ /\ after_queue' = Append(after_queue, Head(running.load))
          /\ running' = [running EXCEPT !.load = Tail(running.load)]
       \/ /\ LoadPosition(running.load) \in AfterFetch
          /\ after_queue' = Append(after_queue, Head(LoadError))
          /\ running' = [running EXCEPT !.load = Tail(LoadError)]
    /\ UNCHANGED <<touched, reminder_active>>
    /\ ThreadFrame

\* check_reminders, one turn of its loop
ReminderThread ==
    /\ running.reminder = "polling"
    /\ \E now \in Clock :
         IF now = "window" /\ ~reminder_active
         THEN /\ touched' = touched \cup show_pickup_reminder("reminder")
              /\ reminder_active' = TRUE
         ELSE IF now = "late"
         THEN /\ reminder_active' = FALSE
              /\ UNCHANGED touched
         ELSE UNCHANGED <<touched, reminder_active>>
    /\ UNCHANGED <<running, after_queue>>
    /\ ThreadFrame

\* The main loop runs the oldest callback.  on_connection_success builds the
\* ACS tab (the store is opened, the reminder thread started) and calls
\* load_all_data; the two failure callbacks schedule auto_connect again.
RunCallback ==
    /\ after_queue # <<>>
    /\ LET f == Head(after_queue)
           rest == Tail(after_queue)
       IN CASE f = "on_connection_success" ->
                 /\ touched' = touched \cup {Touch("main", "ui"),
                                             Touch("main", "store")}
                 /\ running' = [running EXCEPT !.reminder = "polling",
                                               !.load = LoadProgram]
                 /\ after_queue' = rest
            [] f \in {"on_connection_failed", "on_connection_error"} ->
                 /\ touched' = touched \cup {Touch("main", "ui")}
                 /\ after_queue' = Append(rest, "auto_connect")
                 /\ UNCHANGED running
            [] f = "auto_connect" ->
                 /\ touched' = touched \cup {Touch("main", "ui")}
                 /\ running' = [running EXCEPT !.connect = "testing"]
                 /\ after_queue' = rest
            [] OTHER ->
                 /\ touched' = touched \cup {Touch("main", "ui")}
                 /\ after_queue' = rest
                 /\ UNCHANGED running
    /\ UNCHANGED reminder_active
    /\ ThreadFrame

ThreadNext ==
    \/ Startup
    \/ ConnectThread
    \/ LoadThread
    \/ ReminderThread
    \/ RunCallback

ThreadSpec == Init /\ [][ThreadNext]_vars

\* The thread a handler of the tab runs on: each is the command of a button,
\* called by root.mainloop(), and none starts a thread for its work
HandlerThread(name) == "main"

\* Which thread issued the courier calls of the running handler
CourierCallers ==
    {Touch(HandlerThread(op), calls[i].alias) : i \in DOMAIN calls}

\* ------------------------------------------- functions on their own
\* A function is called once on its argument
PureFrame ==
    UNCHANGED <<store, today, current_pickup_list_no, pc, flow, calls, ret,
                added, batch, op, pre, form, dialog, invocations, running,
                after_queue, reminder_active, touched>>

\* s holds sub as a substring
Contains(s, sub) ==
    \E i \in 1..(Len(s) - Len(sub) + 1) : SubSeq(s, i, i + Len(sub) - 1) = sub

\* ','.join(products)
RECURSIVE join(_)
join(products) ==
    IF Len(products) = 0 THEN <<>>
    ELSE IF Len(products) = 1 THEN products[1]
    ELSE products[1] \o <<",">> \o join(Tail(products))

\* ---------------------------------- ACSCourierAPI._build_delivery_products
COD == <<"C", "O", "D">>
SAT == <<"S", "A", "T">>
INS == <<"I", "N", "S">>
MDV == <<"M", "D", "V">>

\* Amounts in whole euros; a field set may lack cod_amount
Amounts == (0 - 1)..MaxCod

DeliveryInputs ==
    [has_cod : BOOLEAN, cod_amount : Amounts, saturday_delivery : BOOLEAN,
     insurance_amount : 0..MaxCod, morning_delivery : BOOLEAN]

\* shipment_data.get('cod_amount', 0)
cod_amount_of(shipment_data) ==
    IF shipment_data.has_cod THEN shipment_data.cod_amount ELSE 0

\* What goes into params["Acs_Delivery_Products"]: sent is FALSE for the
\* None that create_voucher removes from params
DeliveryProducts(products) ==
    [returned |-> TRUE, sent |-> Len(products) > 0, value |-> join(products)]

\* _build_delivery_products with 'COD' appended for any amount that is not
\* negative
build_delivery_products_not_negative(shipment_data) ==
    DeliveryProducts(
        (IF cod_amount_of(shipment_data) >= 0 THEN <<COD>> ELSE <<>>)
        \o (IF shipment_data.saturday_delivery THEN <<SAT>> ELSE <<>>)
        \o (IF shipment_data.insurance_amount # 0 THEN <<INS>> ELSE <<>>)
        \o (IF shipment_data.morning_delivery THEN <<MDV>> ELSE <<>>))

\* _build_delivery_products
build_delivery_products(shipment_data) ==
    DeliveryProducts(
        (IF cod_amount_of(shipment_data) > 0 THEN <<COD>> ELSE <<>>)
        \o (IF shipment_data.saturday_delivery THEN <<SAT>> ELSE <<>>)
        \o (IF shipment_data.insurance_amount # 0 THEN <<INS>> ELSE <<>>)
        \o (IF shipment_data.morning_delivery THEN <<MDV>> ELSE <<>>))

\* create_voucher builds its params for a field set
BuildDeliveryProducts ==
    /\ ~out.returned
    /\ out' = build_delivery_products(arg)
    /\ UNCHANGED arg
    /\ PureFrame

DeliveryInit == Fresh /\ form = FilledForm /\ arg \in DeliveryInputs

DeliveryNext == BuildDeliveryProducts

DeliverySpec == DeliveryInit /\ [][DeliveryNext]_vars

\* ------------------------------------------------------- split_address
\* The characters of an address: a digit, a letter, white space, punctuation
AddressChars == {"1", "a", " ", "-"}

\* \w: letters, digits and the underscore
WordChars == DigitChars \cup {"a"}

AddressInputs == Texts(AddressChars, MaxAddrLen)

\* \d+$ in place of \d+\w*$
NumberToken_digits_only(s) == isdigit(s)

\* \d+\w*$ : one or more digits, then word characters to the end
NumberToken(s) ==
    \E k \in 1..Len(s) :
        /\ \A m \in 1..k : s[m] \in DigitChars
        /\ \A m \in (k + 1)..Len(s) : s[m] \in WordChars

\* re.search(r'(.+?)\s+(\d+\w*)$', full_address.strip()): group 1 is
\* t[1..i], as short as a match allows, the white space t[i+1..j], group 2
\* the rest.  A match from a later start implies one from the first
\* character, which re.search finds first.
split_address(full_address) ==
    LET t == strip(full_address)
        Match(i, j) ==
            /\ \A k \in (i + 1)..j : t[k] = " "
            /\ NumberToken(SubSeq(t, j + 1, Len(t)))
        starts == {i \in 1..Len(t) : \E j \in (i + 1)..Len(t) : Match(i, j)}
    IN IF starts = {}
       THEN [returned |-> TRUE, street |-> t, number |-> <<>>]
       ELSE LET i == CHOOSE x \in starts : \A y \in starts : x <= y
                j == CHOOSE y \in (i + 1)..Len(t) : Match(i, y)
            IN [returned |-> TRUE,
                street |-> strip(SubSeq(t, 1, i)),
                number |-> strip(SubSeq(t, j + 1, Len(t)))]

\* create_voucher_from_order splits the order's billing address
SplitAddress ==
    /\ ~out.returned
    /\ out' = split_address(arg)
    /\ UNCHANGED arg
    /\ PureFrame

AddressInit == Fresh /\ form = FilledForm /\ arg \in AddressInputs

AddressNext == SplitAddress

AddressSpec == AddressInit /\ [][AddressNext]_vars

\* ------------------------------------------- update_shipment on its own
\* Fields a caller may supply, and the values it supplies for them
UpdateFields == {"id", "pdf_path", "status"}

UpdateValues ==
    [id |-> 7, pdf_path |-> PathOf(1, "saved"), status |-> "CANCELLED"]

\* The ids of the rows whose last_updated the UPDATE sets to
\* CURRENT_TIMESTAMP: none when the method returns early or the UPDATE raises
last_updated_refreshed(rows, shipment_id, data, storage_ok) ==
    IF DOMAIN data \ {"id"} = {} \/ ~storage_ok
    THEN {}
    ELSE {rows[i].id : i \in {k \in 1..Len(rows) : rows[k].id = shipment_id}}

\* self.acs_db.update_shipment(shipment_id, data) for any id and any choice
\* of fields
UpdateShipmentAny ==
    /\ pc = "idle"
    /\ ~out.returned
    /\ \E shipment_id \in 1..(Len(shipments) + 1),
          supplied \in SUBSET UpdateFields,
          storage_ok \in BOOLEAN :
         LET data == [f \in supplied |-> UpdateValues[f]]
         IN /\ shipments' = update_shipment(shipments, shipment_id, data,
                                            storage_ok)
            /\ out' = [returned |-> TRUE,
                       shipment_id |-> shipment_id,
                       supplied |-> supplied,
                       storage_ok |-> storage_ok,
                       refreshed |-> last_updated_refreshed(shipments,
                                        shipment_id, data, storage_ok)]
    /\ UNCHANGED <<pickup_lists, activity_log, today, current_pickup_list_no,
                   pc, flow, calls, ret, added, batch, op, pre, form, dialog,
                   invocations, running, after_queue, reminder_active,
                   touched, arg>>

\* update_shipment has returned to its caller
UpdateReturns ==
    /\ out.returned
    /\ out' = NoOut
    /\ UNCHANGED <<store, today, current_pickup_list_no, pc, flow, calls,
                   ret, added, batch, op, pre, form, dialog, invocations,
                   running, after_queue, reminder_active, touched, arg>>

\* The other store operations, between two updates
UpdateAddShipment == ~out.returned /\ AddShipment

UpdateCreatePickupList == ~out.returned /\ CreatePickupListBatch

UpdateNext ==
    \/ UpdateShipmentAny
    \/ UpdateReturns
    \/ UpdateAddShipment
    \/ UpdateCreatePickupList

UpdateSpec == Init /\ [][UpdateNext]_vars

\* ------------------------------------------------------- WooCommerceAPI
\* The store holds arg.items items, numbered 1..items, and serves them
\* PerPage to a page; page p of a list endpoint is the p-th slice, empty
\* beyond the last, and X-WP-TotalPages is the number of pages.
PerPage == 2

Endpoints == {"products", "orders"}

ServerInputs == [endpoint : Endpoints, items : 0..MaxItems]

total_pages(server) == (server.items + PerPage - 1) \div PerPage

Min(a, b) == IF a <= b THEN a ELSE b

PageOf(server, page) ==
    [i \in 1..(Min(page * PerPage, server.items) - Min((page - 1) * PerPage, server.items))
        |-> (page - 1) * PerPage + i]

\* every item of the store, in order
FullCollection(server) == [i \in 1..server.items |-> i]

\* The loop's locals: page, the list collected, the pages requested so
\* far, and why the loop was left
Loop(page, all, requests, left, returned) ==
    [returned |-> returned, page |-> page, all |-> all,
     requests |-> requests, left |-> left]

\* get_all_products / get_all_orders up to the while
GetAll ==
    /\ out = NoOut
    /\ out' = Loop(1, <<>>, <<>>, "no", FALSE)
    /\ UNCHANGED arg
    /\ PureFrame

\* One turn of the loop: requests.get, raise_for_status, the empty test,
\* extend, the X-WP-TotalPages test, page += 1; the except branch breaks.
\* ok is FALSE when the request fails or times out.
fetch_page(loop, server, ok) ==
    LET page == loop.page
        requests == Append(loop.requests, page)
        items == PageOf(server, page)
    IN IF ~ok
       THEN Loop(page, loop.all, requests, "except", TRUE)
       ELSE IF Len(items) = 0
       THEN Loop(page, loop.all, requests, "empty", TRUE)
       ELSE IF page >= total_pages(server)
       THEN Loop(page, loop.all \o items, requests, "last", TRUE)
       ELSE Loop(page + 1, loop.all \o items, requests, "no", FALSE)

FetchPage ==
    /\ out # NoOut
    /\ ~out.returned
    /\ \E ok \in BOOLEAN : out' = fetch_page(out, arg, ok)
    /\ UNCHANGED arg
    /\ PureFrame

PageInit == Fresh /\ form = FilledForm /\ arg \in ServerInputs

PageNext == GetAll \/ FetchPage

PageSpec == PageInit /\ [][PageNext]_vars

\* ------------------------------------------- check_reminders on its own
\* The clock is the day (today) and the minute of the day (arg); the thread
\* looks at it, acts, and sleeps.
DayMinutes == 1440

\* self.pickup_time = time(10, 0)
PickupMinute == 600

\* self.reminder_minutes = 15
ReminderMinutes == 15

\* time.sleep(60)
SleepMinutes == 1

\* the days on which show_pickup_reminder was called, in order
Fired(o) == IF o = NoOut THEN <<>> ELSE o.fired

InWindow(now) == PickupMinute - ReminderMinutes <= now /\ now < PickupMinute

\* the test of the loop with 'not self.reminder_active' left out
ReminderDue_whenever_in_window(now, active) == InWindow(now)

\* reminder_datetime <= now < pickup_datetime and not self.reminder_active
ReminderDue(now, active) == InWindow(now) /\ ~active

\* One turn of check_reminders.  The turn takes the sleep and the time of
\* its own work, so the next look is one or two minutes later.
ReminderPoll ==
    /\ IF ReminderDue(arg, reminder_active)
       THEN /\ out' = [returned |-> FALSE, fired |-> Append(Fired(out), today)]
            /\ reminder_active' = TRUE
       ELSE IF arg >= PickupMinute
       THEN /\ reminder_active' = FALSE
            /\ UNCHANGED out
       ELSE UNCHANGED <<out, reminder_active>>
    /\ \E slept \in {SleepMinutes, SleepMinutes + 1} :
         /\ arg' = (arg + slept) % DayMinutes
         /\ today' = IF arg + slept >= DayMinutes THEN today + 1 ELSE today
         /\ today' <= MaxDay
    /\ UNCHANGED <<store, current_pickup_list_no, pc, flow, calls, ret,
                   added, batch, op, pre, form, dialog, invocations, running,
                   after_queue, touched>>

\* The tab may be built at any time of the day
ReminderInit ==
    Fresh /\ form = FilledForm /\ arg \in 0..(DayMinutes - 1)

ReminderNext == ReminderPoll

ReminderSpec == ReminderInit /\ [][ReminderNext]_vars

\* ------------------------------------------------------------- properties
IsPrefix(s, t) ==
    /\ Len(s) <= Len(t)
    /\ \A i \in 1..Len(s) : s[i] = t[i]

IsLabelCall(c) == c.alias = "ACS_Print_Voucher_V2"

\* the label fetches of the last create-voucher-with-label flow, in order
LabelCalls == SelectSeq(calls, IsLabelCall)

LabelTypes == [i \in 1..Len(LabelCalls) |-> LabelCalls[i].print_type]

\* the last handler was a create-voucher-with-label flow and it has returned
FlowReturned == op = "voucher" /\ pc = "returned" /\ ret.returned

\* the courier client answered create_voucher with a voucher number
Granted == ~flow.result.raised /\ flow.result.success /\ flow.result.has_voucher_no

\* create_voucher returned a failure
VoucherRefused == ~flow.result.raised /\ ~flow.result.success

NoLabelYielded == \A i \in 1..Len(LabelCalls) : ~LabelCalls[i].yielded

\* the file of the attempt that yielded a label, if one did
KindOf(print_type) == IF print_type = 2 THEN "laser" ELSE "thermal"

YieldedPath(voucher_no) ==
    IF NoLabelYielded THEN NoPath
    ELSE LET i == CHOOSE k \in 1..Len(LabelCalls) : LabelCalls[k].yielded
         IN PathOf(voucher_no, KindOf(LabelCalls[i].print_type))

RowsWithVoucher(rows, voucher_no) ==
    {i \in 1..Len(rows) : rows[i].voucher_no = voucher_no}

\* C1: in a create-voucher-with-label flow the label fetches issued so far
\* are a prefix of laser, laser, thermal (so never more than three), and
\* none is issued before create_voucher has been called.
C1_AtMostThreeLabelFetches ==
    op = "voucher" =>
        /\ IsPrefix(LabelTypes, <<2, 2, 1>>)
        /\ Len(LabelCalls) > 0 =>
              /\ calls[1].alias = "ACS_Create_Voucher"
              /\ Granted

C1_Witness == FlowReturned /\ Len(LabelCalls) = 3

\* C2: a Shipment row is persisted if and only if voucher creation
\* succeeded: a flow the courier granted a voucher to ends with a row
\* carrying that voucher_no, a flow that reports success has had its row
\* written by add_shipment, and a flow without a voucher writes no row.
C2_RowIffVoucherGranted ==
    FlowReturned =>
        /\ Granted => RowsWithVoucher(shipments, flow.result.voucher_no) # {}
        /\ ret.success => added # NULL
        /\ ~Granted => shipments = pre.shipments

\* C3: when create_voucher fails the flow returns failure with the courier
\* client's error text unchanged, issues no label fetch and leaves the
\* shipments table and the activity log as they were when it started.
C3_RefusedVoucherWritesNothing ==
    (FlowReturned /\ VoucherRefused) =>
        /\ ~ret.success
        /\ ret.error = flow.result.error
        /\ ret.voucher_no = NULL
        /\ ret.pdf_path = NoPath
        /\ LabelCalls = <<>>
        /\ added = NULL
        /\ shipments = pre.shipments
        /\ activity_log = pre.activity_log

C3_Witness ==
    /\ FlowReturned
    /\ VoucherRefused
    /\ flow.result.error = "Rate limit exceeded (406 Not Acceptable)"
    /\ Len(shipments) > 0

\* C4: when create_voucher succeeded and all three label attempts failed,
\* the flow still persists the Shipment with status READY and returns
\* success with the voucher number and a null pdfPath.
C4_LabelFailuresStillPersist ==
    (FlowReturned /\ Granted /\ Len(LabelCalls) = 3 /\ NoLabelYielded) =>
        /\ ret.success
        /\ ret.voucher_no = flow.result.voucher_no
        /\ ret.pdf_path = NoPath
        /\ \E i \in RowsWithVoucher(shipments, flow.result.voucher_no) :
              /\ shipments[i].status = "READY"
              /\ shipments[i].pdf_path = NoPath

\* C5: a label fetch is issued only while no earlier attempt of the flow
\* has yielded a non-empty label file: the second laser attempt only after
\* a failed first, the thermal attempt only after two failed laser attempts,
\* and nothing after an attempt that yielded a label.
C5_FallbackOnlyAfterFailure ==
    op = "voucher" =>
        \A i \in 1..Len(LabelCalls) :
            \A j \in 1..(i - 1) : ~LabelCalls[j].yielded

C5_Witness ==
    /\ FlowReturned
    /\ Len(LabelCalls) = 2
    /\ LabelCalls[2].yielded

\* C6: a flow that reports success returns the courier's voucher number and
\* the path of the label file an attempt yielded (null when none did), and
\* the row it wrote has status READY, that voucher_no, the flow's source
\* tag and that same pdf_path, and is the row get_shipment finds for the
\* voucher number.
C6_StoredRowMatchesReturn ==
    (FlowReturned /\ ret.success) =>
        /\ ret.voucher_no = flow.result.voucher_no
        /\ ret.pdf_path = YieldedPath(flow.result.voucher_no)
        /\ added # NULL =>
              /\ shipments[added].status = "READY"
              /\ shipments[added].voucher_no = ret.voucher_no
              /\ shipments[added].source = flow.source
              /\ shipments[added].woocommerce_order_id = flow.order_id
              /\ shipments[added].pdf_path = ret.pdf_path
              /\ get_shipment(shipments, ret.voucher_no) = {shipments[added]}

C6_Witness ==
    /\ FlowReturned
    /\ ret.success
    /\ added # NULL
    /\ flow.source = "ESHOP"
    /\ shipments[added].pdf_path = PathOf(ret.voucher_no, "thermal")

\* C7: once a pickup list of today has stamped a shipment and no READY
\* shipment of today is left, a further batch call adds no PickupList row.
C7_SecondBatchIsNoOp ==
    [][ ( /\ \E i \in 1..Len(shipments) :
                /\ shipments[i].pickup_list_no # NULL
                /\ shipments[i].pickup_date = today
          /\ get_today_stats(shipments, today).ready = 0
          /\ today' = today )
        => pickup_lists' = pickup_lists ]_vars

\* C8: every PickupList row's total_vouchers is the number of shipments
\* that reference its pickup_list_no.
C8_TotalIsStampedCount ==
    \A i \in 1..Len(pickup_lists) :
        pickup_lists[i].total_vouchers =
            Cardinality({j \in 1..Len(shipments) :
                shipments[j].pickup_list_no = pickup_lists[i].pickup_list_no})

\* C9: after a successful courier pickup-list call the PickupList row and
\* the shipments the batch operation stamped carry the courier's number.
C9_LocalNumberIsCouriersNumber ==
    (op = "pickup" /\ batch.list_id # NULL) =>
        /\ pickup_lists[batch.list_id].pickup_list_no = batch.pickup_list_no
        /\ \A j \in 1..Len(pre.shipments) :
              (pre.shipments[j].status = "READY" /\ shipments[j].status = "PICKED_UP")
                  => shipments[j].pickup_list_no = batch.pickup_list_no

\* C10: the batching flow calls the courier only when a READY shipment with
\* a voucher number exists for the date; otherwise no courier call is made
\* and no PickupList row is created.
C10_CourierCalledOnlyWithReadyShipment ==
    op = "pickup" =>
        \/ \E j \in 1..Len(pre.shipments) :
              /\ pre.shipments[j].status = "READY"
              /\ pre.shipments[j].voucher_no # NULL
              /\ pre.shipments[j].created_date = pre.today
        \/ calls = <<>> /\ pickup_lists = pre.pickup_lists

\* C11: when the courier's pickup-list call fails (a transport failure, a
\* courier error such as unprinted vouchers, an empty answer or a raising
\* client) the handler creates no PickupList row, changes no Shipment,
\* writes no activity-log entry and leaves current_pickup_list_no as it was.
C11_FailedCourierCallChangesNothing ==
    (op = "pickup" /\ calls # <<>> /\ batch.pickup_list_no = NULL) =>
        /\ pickup_lists = pre.pickup_lists
        /\ shipments = pre.shipments
        /\ activity_log = pre.activity_log
        /\ current_pickup_list_no = pre.current_pickup_list_no

C11_Witness ==
    /\ op = "pickup"
    /\ calls # <<>>
    /\ batch.error = "Unprinted vouchers found"
    /\ current_pickup_list_no # NULL
    /\ get_today_stats(shipments, today).ready > 0

\* C14: a shipment is created in DRAFT or READY; the only status change of
\* an existing shipment is READY to PICKED_UP, made by create_pickup_list in
\* the step that adds the PickupList row and sets the shipment's
\* pickup_list_no; no row leaves PICKED_UP or DRAFT, and no row disappears.
C14_StatusLifecycle ==
    [][ /\ Len(shipments') >= Len(shipments)
        /\ \A i \in 1..Len(shipments) :
              \/ shipments'[i].status = shipments[i].status
              \/ /\ shipments[i].status = "READY"
                 /\ shipments'[i].status = "PICKED_UP"
                 /\ shipments[i].pickup_list_no = NULL
                 /\ shipments'[i].pickup_list_no # NULL
                 /\ Len(pickup_lists') = Len(pickup_lists) + 1
        /\ \A i \in (Len(shipments) + 1)..Len(shipments') :
              shipments'[i].status \in {"DRAFT", "READY"} ]_vars

C14_Witness ==
    /\ op = "create_pickup_list"
    /\ \E i \in 1..Len(shipments) : shipments[i].status = "PICKED_UP"
    /\ \E i \in 1..Len(shipments) :
          shipments[i].status = "DRAFT" /\ shipments[i].created_date = today

\* C15: a shipment's pickup_list_no is non-null only if a PickupList row
\* with that pickup_list_no exists (the shipment then is PICKED_UP), and a
\* pickup_list_no once set is never changed.
C15_PickupListNoOnlyFromBatch ==
    /\ [](\A i \in 1..Len(shipments) :
            shipments[i].pickup_list_no # NULL =>
                /\ shipments[i].status = "PICKED_UP"
                /\ \E l \in 1..Len(pickup_lists) :
                      pickup_lists[l].pickup_list_no = shipments[i].pickup_list_no)
    /\ [][ \A i \in 1..Len(shipments) :
              shipments[i].pickup_list_no # NULL =>
                  shipments'[i].pickup_list_no = shipments[i].pickup_list_no ]_vars

C15_Witness ==
    /\ op = "update_shipment"
    /\ Len(pickup_lists) = 2
    /\ pickup_lists[1].pickup_date = pickup_lists[2].pickup_date
    /\ \E i \in 1..Len(shipments) :
          /\ shipments[i].pickup_list_no = pickup_lists[1].pickup_list_no
          /\ shipments[i].pdf_path = PathOf(shipments[i].voucher_no, "saved")

\* C16: no two shipments share a non-null voucher_no, whatever add_shipment
\* and update_shipment calls were made (any number of rows may have none);
\* an add_shipment whose voucher_no is already in the table returns None and
\* leaves the shipments table and the activity log as they were, and an
\* add_shipment that returns an id has appended one row with that id and
\* the voucher_no passed.
C16_VoucherNoUnique ==
    /\ [](\A i, j \in 1..Len(shipments) :
            (i # j /\ shipments[i].voucher_no # NULL) =>
                shipments[i].voucher_no # shipments[j].voucher_no)
    /\ [][ (op' = "add_shipment" /\ today' = today) =>
            IF /\ flow'.voucher_no # NULL
               /\ \E i \in 1..Len(shipments) :
                     shipments[i].voucher_no = flow'.voucher_no
            THEN /\ added' = NULL
                 /\ shipments' = shipments
                 /\ activity_log' = activity_log
            ELSE \/ added' = NULL /\ shipments' = shipments
                 \/ /\ added' = Len(shipments) + 1
                    /\ Len(shipments') = Len(shipments) + 1
                    /\ shipments'[added'].voucher_no = flow'.voucher_no
                    /\ \A i \in 1..Len(shipments) : shipments'[i] = shipments[i]
          ]_vars

C16_Witness ==
    /\ op = "add_shipment"
    /\ added = NULL
    /\ flow.voucher_no # NULL
    /\ \E i \in 1..Len(shipments) :
          /\ shipments[i].voucher_no = flow.voucher_no
          /\ shipments[i].pdf_path = PathOf(flow.voucher_no, "saved")

\* C17: every step that changes the shipments table or the pickup_lists
\* table appends at least one activity-log entry.
C17_EveryMutationIsLogged ==
    [][ (shipments' # shipments \/ pickup_lists' # pickup_lists) =>
            Len(activity_log') > Len(activity_log) ]_vars

\* C18: whatever store operations were made, get_today_stats returns
\* total = eshop + manual.
C18_TotalIsEshopPlusManual ==
    LET stats == get_today_stats(shipments, today)
    IN stats.total = stats.eshop + stats.manual

C18_Witness ==
    LET stats == get_today_stats(shipments, today)
    IN /\ stats.eshop = 1
       /\ stats.manual = 1
       /\ stats.ready = 0
       /\ op = "create_pickup_list"
       /\ \E i \in 1..Len(shipments) : shipments[i].status = "DRAFT"

\* what a typed text holds
IsBlank(s) == \A i \in 1..Len(s) : s[i] = " "

DigitCount(s) == Cardinality({i \in 1..Len(s) : s[i] = "1"})

FiveDigits(s) ==
    \E first \in 1..Len(s) :
        /\ first + 4 <= Len(s)
        /\ \A i \in 1..Len(s) :
              IF i \in first..(first + 4) THEN s[i] = "1" ELSE s[i] = " "

\* C19: when save_manual_entry runs on a form in which a required field is
\* empty or blank, the zipcode (surrounding blanks aside) is not exactly five
\* digits, or the phone number does not hold exactly ten digits, it ends
\* with a messagebox, having called the courier not once and written
\* nothing to the store.
C19_InvalidFormIsRejectedFirst ==
    ( /\ op # "none"
      /\ \/ \E i \in 1..Len(Required) : IsBlank(form[Required[i]])
         \/ ~FiveDigits(form.recipient_zipcode)
         \/ DigitCount(form.recipient_phone) # 10 )
    => /\ op = "manual"
       /\ pc = "returned"
       /\ dialog \in {"Missing Field", "Invalid Zipcode", "Invalid Phone"}
       /\ calls = <<>>
       /\ added = NULL
       /\ shipments = <<>>
       /\ activity_log = <<>>

C19_Witness ==
    /\ op = "manual"
    /\ dialog = "Invalid Zipcode"
    /\ form.recipient_zipcode = <<"1", "1", "1", "1">>
    /\ DigitCount(form.recipient_phone) = 10
    /\ calls = <<>>

C20_BackgroundThreadsHandOff ==
    \A t \in touched : t.thread = "main"

\* C21: every courier call a handler issues, and the whole voucher flow
\* with its wait before the second label attempt, runs on a background
\* thread, never on the main thread.
C21_CourierCallsOffMainThread ==
    /\ \A t \in CourierCallers : t.thread # "main"
    /\ pc \in {"method1", "method2", "method3", "persist"}
         => HandlerThread(op) # "main"

\* C22: a client operation never raises to its caller: whatever the courier
\* answers, the handler gets a result back, with success false and an error
\* on failure.
C22_ClientNeverRaises ==
    /\ ~flow.result.raised
    /\ (~flow.result.success /\ Len(calls) > 0) => flow.result.error # None

\* C28: whenever create_voucher returns success true the result carries a
\* voucher_no; an answer without error flag whose value list is empty or
\* whose first entry has no Voucher_No comes back as success false.
C28_SuccessCarriesVoucherNo ==
    (~flow.result.raised /\ flow.result.success)
        => (flow.result.has_voucher_no /\ flow.result.voucher_no # NULL)

\* C23: the delivery products create_voucher sends hold the COD marker if
\* and only if the shipment's cash-on-delivery amount is greater than 0.
C23_CodMarkerIffCodAmount ==
    out.returned =>
        ((out.sent /\ Contains(out.value, COD)) <=> cod_amount_of(arg) > 0)

\* A cash-on-delivery shipment for Saturday: "COD,SAT" is sent
C23_Witness ==
    /\ out.returned
    /\ arg.has_cod /\ arg.cod_amount > 0
    /\ out.sent /\ out.value = COD \o <<",">> \o SAT

\* the tokens of a trimmed address
LastSpace(t) ==
    IF \E i \in 1..Len(t) : t[i] = " "
    THEN CHOOSE i \in 1..Len(t) : t[i] = " " /\ \A k \in (i + 1)..Len(t) : t[k] # " "
    ELSE 0

LastToken(t) == SubSeq(t, LastSpace(t) + 1, Len(t))

BeforeLastToken(t) == strip(SubSeq(t, 1, LastSpace(t)))

\* what split_address gives when it splits, and when it does not
SplitAtLastToken(t) ==
    [returned |-> TRUE, street |-> BeforeLastToken(t), number |-> LastToken(t)]

NotSplit(t) == [returned |-> TRUE, street |-> t, number |-> <<>>]

\* a token that starts with a digit and holds letters, digits and
\* underscores only
HouseNumber(s) ==
    /\ Len(s) > 0
    /\ s[1] \in DigitChars
    /\ \A m \in 1..Len(s) : s[m] \in WordChars

C25_UpdateChangesSuppliedFieldsOnly ==
    [][(~out.returned /\ out'.returned) =>
         /\ pickup_lists' = pickup_lists
         /\ Len(shipments') = Len(shipments)
         /\ \A i \in 1..Len(shipments) :
              IF shipments[i].id = out'.shipment_id
              THEN /\ \A f \in DOMAIN shipments[i] \ out'.supplied :
                        shipments'[i][f] = shipments[i][f]
                   /\ out'.storage_ok => shipments[i].id \in out'.refreshed
              ELSE shipments'[i] = shipments[i]]_vars

\* C26: a list operation requests pages 1, 2, 3, ... in order and goes on
\* until a page comes back empty or page >= the total page count, and what
\* it returns is the in-order concatenation of all pages: the full
\* collection.
C26_ReturnsFullCollection ==
    (out # NoOut) =>
        /\ out.requests = [i \in 1..Len(out.requests) |-> i]
        /\ out.returned =>
             /\ out.left \in {"empty", "last"}
             /\ out.all = FullCollection(arg)

\* C27: the reminder fires at most once in a day's window; after firing the
\* loop stays disarmed until the clock has reached the pickup time; and when
\* a day's window is open and the reminder has not fired in it, the loop is
\* armed.
C27_OncePerWindow ==
    LET fired == Fired(out)
        FiredToday == \E i \in 1..Len(fired) : fired[i] = today
    IN /\ \A i, j \in 1..Len(fired) : i # j => fired[i] # fired[j]
       /\ (FiredToday /\ arg < PickupMinute) => reminder_active
       /\ (InWindow(arg) /\ ~FiredToday) => ~reminder_active

\* The reminder has fired on two days running
C27_Witness ==
    /\ Len(Fired(out)) >= 2
    /\ Fired(out)[1] = 1
    /\ Fired(out)[2] = 2

\* C29: in every store state the handlers reach, a shipment has a voucher_no
\* if and only if its status is READY or PICKED_UP, and a DRAFT shipment has
\* neither a voucher_no nor a pickup_list_no.
C29_VoucherIffReadyOrPickedUp ==
    \A i \in 1..Len(shipments) :
        LET r == shipments[i] IN
        /\ (r.voucher_no # NULL) <=> (r.status \in {"READY", "PICKED_UP"})
        /\ r.status = "DRAFT" => (r.voucher_no = NULL /\ r.pickup_list_no = NULL)

\* A draft next to a shipment with a voucher that a batch has picked up
C29_Witness ==
    /\ \E i \in 1..Len(shipments) :
         /\ shipments[i].status = "DRAFT"
         /\ shipments[i].voucher_no = NULL
    /\ \E i \in 1..Len(shipments) :
         /\ shipments[i].status = "PICKED_UP"
         /\ shipments[i].voucher_no # NULL
         /\ shipments[i].pickup_list_no # NULL

\* C30: at most one shipment exists per storefront order id, and an order
\* that has a shipment in the store when a handler starts is not sent to
\* the courier's create_voucher by that handler.
C30_OneVoucherPerOrder ==
    /\ \A i, j \in 1..Len(shipments) :
         (/\ i # j
          /\ shipments[i].woocommerce_order_id # NULL)
         => shipments[i].woocommerce_order_id # shipments[j].woocommerce_order_id
    /\ (/\ flow.order_id # NULL
        /\ \E k \in 1..Len(calls) : calls[k].alias = "ACS_Create_Voucher")
       => \A i \in 1..Len(pre.shipments) :
            pre.shipments[i].woocommerce_order_id # flow.order_id

====
